---- MODULE Spec2Model ----
(***************************************************************************)
(* Peer-to-peer weight exchange and aggregation of the federated-learning  *)
(* demos: node/peer.py (send_weights, start_peer_server), aggregator/      *)
(* aggregate.py (average_weights) and tutorials/p2p_w_ml/node_a.py,        *)
(* node_b.py (the two-node exchange).                                      *)
(*                                                                         *)
(* A ParameterSet is an ordered sequence of <<key, value>> pairs with      *)
(* distinct keys (a Python dict keeps insertion order); a key is a         *)
(* sequence of character codes.                                            *)
(***************************************************************************)
EXTENDS Integers, Sequences, FiniteSets, TLC

(***************************************************************************)
(* Bounds of the model.                                                    *)
(***************************************************************************)
\* connections made to one peer server
MaxConns == 2
\* entries of a ParameterSet sent over the wire
MaxKeys == 2
\* elements of one value list sent over the wire
MaxLen == 1
\* ParameterSets passed to one call of average_weights
MaxSets == 2

\* conn.recv(4096): the most bytes one recv returns
RecvBufSize == 4096

Conns == 1..MaxConns

Min(a, b) == IF a < b THEN a ELSE b

(***************************************************************************)
(* Generic helpers on sequences.                                           *)
(***************************************************************************)
Prefix(s, k) == SubSeq(s, 1, k)
Suffix(s, k) == SubSeq(s, k + 1, Len(s))

RECURSIVE Flatten(_)
Flatten(ss) == IF ss = <<>> THEN <<>> ELSE Head(ss) \o Flatten(Tail(ss))

SeqsUpTo(S, n) == UNION {[1..k -> S] : k \in 0..n}

KeysOf(p) == {p[i][1] : i \in DOMAIN p}

DistinctKeys(p) == \A i, j \in DOMAIN p : p[i][1] = p[j][1] => i = j

(***************************************************************************)
(* The ParameterSets exchanged over the wire: keys "w" and "b1", values    *)
(* lists of small integers.                                                *)
(***************************************************************************)
WireKeys == {<<119>>, <<98, 49>>}
WireVals == {1, 2}

WireParams ==
    {p \in SeqsUpTo(WireKeys \X SeqsUpTo(WireVals, MaxLen), MaxKeys) : DistinctKeys(p)}

(***************************************************************************)
(* pickle.dumps / pickle.loads, at the level of the opcodes of the stream  *)
(* (memoisation and framing opcodes left out): PROTO 4, EMPTY_DICT,        *)
(* [MARK (key value)* SETITEMS], STOP, with key = SHORT_BINUNICODE n       *)
(* bytes and value = EMPTY_LIST [MARK (BININT1 byte)* APPENDS].            *)
(***************************************************************************)
Op(name) ==
    CASE name = "PROTO" -> 128
      [] name = "EMPTY_DICT" -> 125
      [] name = "MARK" -> 40
      [] name = "SETITEMS" -> 117
      [] name = "STOP" -> 46
      [] name = "EMPTY_LIST" -> 93
      [] name = "APPENDS" -> 101
      [] name = "BININT1" -> 75
      [] name = "SHORT_BINUNICODE" -> 140

EncKey(k) == <<Op("SHORT_BINUNICODE"), Len(k)>> \o k

EncList(v) ==
    <<Op("EMPTY_LIST")>> \o
    (IF v = <<>> THEN <<>>
     ELSE <<Op("MARK")>> \o Flatten([i \in DOMAIN v |-> <<Op("BININT1"), v[i]>>])
          \o <<Op("APPENDS")>>)

Dumps(p) ==
    <<Op("PROTO"), 4, Op("EMPTY_DICT")>> \o
    (IF p = <<>> THEN <<>>
     ELSE <<Op("MARK")>> \o Flatten([i \in DOMAIN p |-> EncKey(p[i][1]) \o EncList(p[i][2])])
          \o <<Op("SETITEMS")>>) \o
    <<Op("STOP")>>

\* the result of a failed parse: pickle.loads raises
Fail == [ok |-> FALSE, val |-> <<>>, pos |-> 0]

\* d[k] = v on a dict: replaces the value of an existing key in place, else appends
DictSet(d, k, v) ==
    IF k \in KeysOf(d)
    THEN [i \in DOMAIN d |-> IF d[i][1] = k THEN <<k, v>> ELSE d[i]]
    ELSE Append(d, <<k, v>>)

RECURSIVE ParseInts(_, _, _)
ParseInts(d, i, acc) ==
    IF i > Len(d) THEN Fail
    ELSE IF d[i] = Op("APPENDS") THEN [ok |-> TRUE, val |-> acc, pos |-> i + 1]
    ELSE IF d[i] = Op("BININT1") /\ i + 1 <= Len(d)
         THEN ParseInts(d, i + 2, Append(acc, d[i + 1]))
    ELSE Fail

ParseList(d, i) ==
    IF i > Len(d) \/ d[i] # Op("EMPTY_LIST") THEN Fail
    ELSE IF i + 1 <= Len(d) /\ d[i + 1] = Op("MARK") THEN ParseInts(d, i + 2, <<>>)
    ELSE [ok |-> TRUE, val |-> <<>>, pos |-> i + 1]

ParseKey(d, i) ==
    IF i + 1 > Len(d) \/ d[i] # Op("SHORT_BINUNICODE") THEN Fail
    ELSE IF i + 1 + d[i + 1] > Len(d) THEN Fail
    ELSE [ok |-> TRUE, val |-> SubSeq(d, i + 2, i + 1 + d[i + 1]), pos |-> i + 2 + d[i + 1]]

RECURSIVE ParseItems(_, _, _)
ParseItems(d, i, acc) ==
    IF i > Len(d) THEN Fail
    ELSE IF d[i] = Op("SETITEMS") THEN [ok |-> TRUE, val |-> acc, pos |-> i + 1]
    ELSE LET k == ParseKey(d, i) IN
         IF ~k.ok THEN Fail
         ELSE LET v == ParseList(d, k.pos) IN
              IF ~v.ok THEN Fail
              ELSE ParseItems(d, v.pos, DictSet(acc, k.val, v.val))

\* pickle.loads(data): the object the stream builds up to its STOP opcode; bytes
\* after STOP are ignored; a stream that ends before STOP raises
Loads(d) ==
    IF Len(d) < 4 \/ Prefix(d, 3) # <<Op("PROTO"), 4, Op("EMPTY_DICT")>> THEN Fail
    ELSE LET items == IF d[4] = Op("MARK") THEN ParseItems(d, 5, <<>>)
                      ELSE [ok |-> TRUE, val |-> <<>>, pos |-> 4] IN
         IF ~items.ok \/ items.pos > Len(d) \/ d[items.pos] # Op("STOP") THEN Fail
         ELSE [ok |-> TRUE, val |-> items.val, pos |-> items.pos + 1]

(***************************************************************************)
(* State.                                                                  *)
(*                                                                         *)
(* node/peer.py: one peer server and the connections made to it.           *)
(*   srv      the server thread: "bind" (started, not listening yet),      *)
(*            "accept" (in the accept loop), "handling" (running a         *)
(*            handler itself), "dead" (ended by an exception of a handler  *)
(*            it ran itself), "bind_failed" (ended by the exception of     *)
(*            s.bind), "killed" (ended with the process), "off" (not       *)
(*            started)                                                     *)
(*   client   per connection, the peer at the other end (fixed)            *)
(*   cpc      per connection, where that peer is: "idle", "refused",       *)
(*            "closed" (all written, socket closed), "stalled" (connected, *)
(*            neither writing nor closing), "elsewhere" (connected to the  *)
(*            other process that holds the port, written, closed)          *)
(*   wire     per connection, the bytes written and not yet read           *)
(*   backlog  the connections established and not yet accepted             *)
(*   hpc      per connection, where handle_client is                       *)
(*   mode     per connection, the thread handle_client runs in             *)
(*   data     per connection, handle_client's data                         *)
(*   weights  per connection, handle_client's weights                      *)
(*   conn     per connection, the server's socket for it                   *)
(*   calls    the calls of the callback so far: <<connection, argument>>   *)
(*   bytewise per connection, whether every recv so far returned one byte  *)
(*   attempts per connection, the calls of s.connect made for it            *)
(*   inuse    whether another process holds the port                        *)
(*   main     run.py's main thread: "none" (the server is not run by        *)
(*            run.py), "start" (before start_peer_server), "sleep",         *)
(*            "train", "send", "ended" (the script ran to its end),         *)
(*            "crashed" (an exception ended it)                             *)
(***************************************************************************)
VARIABLES srv, client, cpc, wire, backlog, hpc, mode, data, weights, conn, calls, bytewise,
          attempts, inuse, main

peerVars ==
    <<srv, client, cpc, wire, backlog, hpc, mode, data, weights, conn, calls, bytewise,
      attempts, inuse, main>>

(***************************************************************************)
(* aggregator/aggregate.py: one caller of average_weights and the objects  *)
(* it holds. A dict and a tensor are objects with an identity; a dict maps *)
(* its keys, in order, to tensors.                                         *)
(*   tensors       the tensors allocated so far, by reference: each the    *)
(*                 sequence of its elements, an element a fraction         *)
(*                 <<numerator, denominator>> in lowest terms              *)
(*   dicts         the dicts allocated so far, by reference: each a        *)
(*                 sequence of <<key, tensor reference>>                   *)
(*   local_weights the argument of average_weights: dict references        *)
(*   inputs0       the values of the argument's dicts before the call      *)
(*   apc           where the caller is: "start", "called" (first call      *)
(*                 over), "mutated" (it then changed the result in         *)
(*                 place), "again" (it then called with the list           *)
(*                 reordered)                                              *)
(*   out1, out2    the outcomes of the first and second call               *)
(*   order         the order of the second call's list                     *)
(***************************************************************************)
VARIABLES tensors, dicts, local_weights, inputs0, apc, out1, out2, order

aggVars == <<tensors, dicts, local_weights, inputs0, apc, out1, out2, order>>

(***************************************************************************)
(* tutorials/p2p_w_ml/node_a.py, node_b.py: two processes, each with a     *)
(* main thread and a daemon listener thread.                               *)
(*   nlocal           per node, local_weights                              *)
(*   mpc              per node, where the main thread is: "input1" (at the *)
(*                    first input()), "connect", "sendall", "close" (in    *)
(*                    send_weights), "wait" (at the second input()),       *)
(*                    "aggregate", "done", "crashed" (uncaught exception)  *)
(*   lpc              per node, where listen_for_peer is: "bind",          *)
(*                    "accept", "recv", "loads", "close", "done",          *)
(*                    "raised", "killed" (the process ended)               *)
(*   nlink            per node, the connection the other node made to it:  *)
(*                    "none", "queued" (established, not accepted),        *)
(*                    "accepted", "closed" (conn.close() was called)       *)
(*   nfin             per node, whether the peer closed that connection    *)
(*   nwire            per node, the bytes written to it and not yet read   *)
(*   xlink            per node, the connection a third process made to it, *)
(*                    as nlink                                             *)
(*   xwire            per node, the bytes the third process wrote and that *)
(*                    are not yet read                                     *)
(*   norder           per node, who connected to it, in the order of the   *)
(*                    connections: "peer" (the other node), "other"        *)
(*   ndata            per node, listen_for_peer's data                     *)
(*   received_weights per node, the global: <<>> for None, else <<value>>  *)
(*   result           per node, what the main thread printed at the end    *)
(***************************************************************************)
VARIABLES nlocal, mpc, lpc, nlink, nfin, nwire, ndata, received_weights, result,
          xlink, xwire, norder

nodeVars ==
    <<nlocal, mpc, lpc, nlink, nfin, nwire, ndata, received_weights, result,
      xlink, xwire, norder>>

vars == <<peerVars, aggVars, nodeVars>>

(***************************************************************************)
(* The peers that connect. send_weights is this repository's sender; the   *)
(* others are remote peers that misbehave: one that disconnects after part *)
(* of a message, one that sends bytes that are no pickle, one that stays   *)
(* connected without sending further bytes or closing.                     *)
(***************************************************************************)
Absent == [kind |-> "absent", p |-> <<>>, bytes |-> <<>>, close |-> FALSE]

SendWeightsClients(P) ==
    {[kind |-> "send_weights", p |-> p, bytes |-> Dumps(p), close |-> TRUE] : p \in P}

TruncatingClients(P) ==
    UNION {{[kind |-> "truncate", p |-> p, bytes |-> Prefix(Dumps(p), k), close |-> TRUE]
              : k \in 0..(Len(Dumps(p)) - 1)} : p \in P}

GarbageClients ==
    {[kind |-> "garbage", p |-> <<>>, bytes |-> b, close |-> TRUE]
       : b \in {<<Op("STOP")>>, <<Op("PROTO"), 4, Op("EMPTY_LIST"), Op("STOP")>>}}

StallingClients(P) ==
    UNION {{[kind |-> "stall", p |-> p, bytes |-> Prefix(Dumps(p), k), close |-> FALSE]
              : k \in 0..Len(Dumps(p))} : p \in P}

\* the peer of connection c sends one complete valid message and closes
Good(c) == client[c].kind = "send_weights"

(***************************************************************************)
(* handle_client's pieces.                                                 *)
(***************************************************************************)
\* data += packet, with the variant that keeps the last packet only
AccumulateLast(d, packet) == packet

Accumulate(d, packet) == d \o packet

\* if not packet: break -- where the loop goes after a recv, with the variant
\* that decodes after the first read
AfterPacketOneRead(packet) == "loads"

AfterPacket(packet) == IF packet = <<>> THEN "loads" ELSE "recv"

\* threading.Thread(target=handle_client, args=(conn,)).start(): the handler runs
\* in a thread of its own, with the variant that calls it in the accept loop
DispatchInline(c) == "inline"

Dispatch(c) == "thread"

\* what conn.recv(4096) can return on connection c: any non-empty prefix of the
\* unread bytes up to the buffer size, or b"" once the peer has closed and all
\* its bytes are read; it blocks otherwise
RecvResults(c) ==
    IF wire[c] # <<>>
    THEN {Prefix(wire[c], k) : k \in 1..Min(Len(wire[c]), RecvBufSize)}
    ELSE IF cpc[c] = "closed" THEN {<<>>} ELSE {}

\* the socket is bound and listening
Listening == srv \in {"accept", "handling"}

\* the connection run.py's main thread makes: send_weights("localhost", peer_port,
\* model_weights)
MainConn == 1

\* connection c is the one of run.py's main thread
ByMain(c) == main # "none" /\ c = MainConn

\* s.connect((host, port)) with no listener: ConnectionRefusedError leaves
\* send_weights, with the variant that tries again
ConnectRetried == [cpc |-> "idle", main |-> "send"]

ConnectRefused == [cpc |-> "refused", main |-> "crashed"]

\* handle_client for c is running in a thread of its own (not a daemon thread)
HandlerRunning(c) == mode[c] = "thread" /\ hpc[c] \in {"recv", "loads", "callback"}

\* the thread that runs handle_client for c ends: its conn goes away with it, and
\* an exception ends the accept loop when the handler ran inside it
SrvAfterHandler(c, raised) ==
    IF mode[c] = "inline" THEN (IF raised THEN "dead" ELSE "accept") ELSE srv

(***************************************************************************)
(* Actions of node/peer.py.                                                *)
(***************************************************************************)
\* server(): s.bind(("localhost", port)); s.listen()
Bind ==
    /\ srv = "bind"
    /\ ~inuse
    /\ srv' = "accept"
    /\ UNCHANGED <<client, cpc, wire, backlog, hpc, mode, data, weights, conn, calls,
                   bytewise, attempts, inuse, main,
                   aggVars, nodeVars>>

\* server(): s.bind raises OSError (the address is in use) in the server thread:
\* the exception ends that thread, after start_peer_server has returned
BindFails ==
    /\ srv = "bind"
    /\ inuse
    /\ srv' = "bind_failed"
    /\ UNCHANGED <<client, cpc, wire, backlog, hpc, mode, data, weights, conn, calls,
                   bytewise, attempts, inuse, main, aggVars, nodeVars>>

\* send_weights(host, port, weights): data = pickle.dumps(weights); s.connect raises
\* ConnectionRefusedError when nothing listens; s.sendall(data); the end of the
\* with block closes the socket. A stalling peer writes and stays connected.
\* One step: a recv of the handler returns any prefix of the bytes written, so the
\* handler sees every arrival of the bytes without the sender's steps being spelt out.
\* When another process holds the port the connection is refused or made to that
\* process, which then gets the bytes.
SendWeights(c) ==
    /\ cpc[c] = "idle"
    /\ client[c].kind # "absent"
    /\ ByMain(c) => main = "send"
    /\ attempts' = [attempts EXCEPT ![c] = @ + 1]
    /\ IF Listening
       THEN /\ backlog' = Append(backlog, c)
            /\ wire' = [wire EXCEPT ![c] = client[c].bytes]
            /\ cpc' = [cpc EXCEPT ![c] = IF client[c].close THEN "closed" ELSE "stalled"]
            /\ main' = IF ByMain(c) THEN "ended" ELSE main
       ELSE \/ /\ cpc' = [cpc EXCEPT ![c] = ConnectRefused.cpc]
               /\ main' = IF ByMain(c) THEN ConnectRefused.main ELSE main
               /\ UNCHANGED <<backlog, wire>>
            \/ /\ inuse
               /\ cpc' = [cpc EXCEPT ![c] = "elsewhere"]
               /\ main' = IF ByMain(c) THEN "ended" ELSE main
               /\ UNCHANGED <<backlog, wire>>
    /\ UNCHANGED <<srv, client, hpc, mode, data, weights, conn, calls, bytewise, inuse,
                   aggVars, nodeVars>>

\* server(): conn, _ = s.accept(); the handler is dispatched
Accept ==
    /\ srv = "accept"
    /\ backlog # <<>>
    /\ LET c == Head(backlog) IN
         /\ backlog' = Tail(backlog)
         /\ conn' = [conn EXCEPT ![c] = "open"]
         /\ mode' = [mode EXCEPT ![c] = Dispatch(c)]
         /\ hpc' = [hpc EXCEPT ![c] = "recv"]
         /\ srv' = IF Dispatch(c) = "inline" THEN "handling" ELSE "accept"
    /\ UNCHANGED <<client, cpc, wire, data, weights, calls, bytewise, attempts, inuse, main,
                   aggVars, nodeVars>>

\* handle_client: packet = conn.recv(4096); if not packet: break; data += packet
Recv(c) ==
    /\ hpc[c] = "recv"
    /\ \E packet \in RecvResults(c) :
         /\ wire' = [wire EXCEPT ![c] = Suffix(wire[c], Len(packet))]
         /\ hpc' = [hpc EXCEPT ![c] = AfterPacket(packet)]
         /\ data' = [data EXCEPT ![c] = IF packet = <<>> THEN data[c]
                                        ELSE Accumulate(data[c], packet)]
         /\ bytewise' = [bytewise EXCEPT ![c] = bytewise[c] /\ Len(packet) <= 1]
    /\ UNCHANGED <<srv, client, cpc, backlog, mode, weights, conn, calls, attempts, inuse, main,
                   aggVars, nodeVars>>

\* handle_client: weights = pickle.loads(data)
LoadsOk(c) ==
    /\ hpc[c] = "loads"
    /\ Loads(data[c]).ok
    /\ weights' = [weights EXCEPT ![c] = Loads(data[c]).val]
    /\ hpc' = [hpc EXCEPT ![c] = "callback"]
    /\ UNCHANGED <<srv, client, cpc, wire, backlog, mode, data, conn, calls, bytewise,
                   attempts, inuse, main,
                   aggVars, nodeVars>>

\* handle_client: pickle.loads(data) raises; the exception ends the thread it is in
LoadsRaises(c) ==
    /\ hpc[c] = "loads"
    /\ ~Loads(data[c]).ok
    /\ hpc' = [hpc EXCEPT ![c] = "raised"]
    /\ conn' = [conn EXCEPT ![c] = "closed"]
    /\ srv' = SrvAfterHandler(c, TRUE)
    /\ UNCHANGED <<client, cpc, wire, backlog, mode, data, weights, calls, bytewise,
                   attempts, inuse, main,
                   aggVars, nodeVars>>

\* handle_client: callback(weights), then the handler returns
Callback(c) ==
    /\ hpc[c] = "callback"
    /\ calls' = Append(calls, <<c, weights[c]>>)
    /\ hpc' = [hpc EXCEPT ![c] = "done"]
    /\ conn' = [conn EXCEPT ![c] = "closed"]
    /\ srv' = SrvAfterHandler(c, FALSE)
    /\ UNCHANGED <<client, cpc, wire, backlog, mode, data, weights, bytewise, attempts, inuse, main,
                   aggVars, nodeVars>>

\* run.py: start_peer_server(port=peer_port, callback=handle_received_weights)
\* starts the server thread and returns
StartPeerServer ==
    /\ main = "start"
    /\ srv = "off"
    /\ srv' = "bind"
    /\ main' = "sleep"
    /\ UNCHANGED <<client, cpc, wire, backlog, hpc, mode, data, weights, conn, calls,
                   bytewise, attempts, inuse, aggVars, nodeVars>>

\* run.py: time.sleep(1)
Sleep ==
    /\ main = "sleep"
    /\ main' = "train"
    /\ UNCHANGED <<srv, client, cpc, wire, backlog, hpc, mode, data, weights, conn, calls,
                   bytewise, attempts, inuse, aggVars, nodeVars>>

\* run.py: model_weights = train_node(node_id=0, total_nodes=2)
Train ==
    /\ main = "train"
    /\ main' = "send"
    /\ UNCHANGED <<srv, client, cpc, wire, backlog, hpc, mode, data, weights, conn, calls,
                   bytewise, attempts, inuse, aggVars, nodeVars>>

\* the main thread is over and no handler thread is running: the interpreter exits
\* and the daemon server thread ends with it
Exit ==
    /\ main \in {"ended", "crashed"}
    /\ \A c \in Conns : ~HandlerRunning(c)
    /\ srv \in {"bind", "accept", "handling"}
    /\ srv' = "killed"
    /\ UNCHANGED <<client, cpc, wire, backlog, hpc, mode, data, weights, conn, calls,
                   bytewise, attempts, inuse, main, aggVars, nodeVars>>

PeerNext ==
    \/ Bind
    \/ Accept
    \/ \E c \in Conns : SendWeights(c)
    \/ \E c \in Conns : Recv(c)
    \/ \E c \in Conns : LoadsOk(c)
    \/ \E c \in Conns : LoadsRaises(c)
    \/ \E c \in Conns : Callback(c)

NodesIdle ==
    /\ nlocal = <<>>
    /\ mpc = <<>>
    /\ lpc = <<>>
    /\ nlink = <<>>
    /\ nfin = <<>>
    /\ nwire = <<>>
    /\ ndata = <<>>
    /\ received_weights = <<>>
    /\ result = <<>>
    /\ xlink = <<>>
    /\ xwire = <<>>
    /\ norder = <<>>

AggIdle ==
    /\ tensors = <<>>
    /\ dicts = <<>>
    /\ local_weights = <<>>
    /\ inputs0 = <<>>
    /\ apc = "idle"
    /\ out1 = <<>>
    /\ out2 = <<>>
    /\ order = <<>>

PeerIdle ==
    /\ srv = "off"
    /\ client = <<>>
    /\ cpc = <<>>
    /\ wire = <<>>
    /\ backlog = <<>>
    /\ hpc = <<>>
    /\ mode = <<>>
    /\ data = <<>>
    /\ weights = <<>>
    /\ conn = <<>>
    /\ calls = <<>>
    /\ bytewise = <<>>
    /\ attempts = <<>>
    /\ inuse = FALSE
    /\ main = "none"

\* no connection has been made
ConnsInit ==
    /\ cpc = [c \in Conns |-> "idle"]
    /\ wire = [c \in Conns |-> <<>>]
    /\ backlog = <<>>
    /\ hpc = [c \in Conns |-> "none"]
    /\ mode = [c \in Conns |-> "none"]
    /\ data = [c \in Conns |-> <<>>]
    /\ weights = [c \in Conns |-> <<>>]
    /\ conn = [c \in Conns |-> "none"]
    /\ calls = <<>>
    /\ attempts = [c \in Conns |-> 0]

\* start_peer_server has just returned to a caller that is not modelled, the port
\* is free
PeerInitCommon ==
    /\ AggIdle
    /\ NodesIdle
    /\ ConnsInit
    /\ srv = "bind"
    /\ inuse = FALSE
    /\ main = "none"

(***************************************************************************)
(* SpecWire: one connection to the peer server, from any peer and with any *)
(* ParameterSet within the bounds.                                         *)
(***************************************************************************)
WireClients ==
    SendWeightsClients(WireParams) \cup TruncatingClients(WireParams)
      \cup GarbageClients \cup StallingClients(WireParams)

InitWire ==
    /\ PeerInitCommon
    /\ bytewise = [c \in Conns |-> TRUE]
    /\ \E k \in WireClients : client = [c \in Conns |-> IF c = 1 THEN k ELSE Absent]

SpecWire == InitWire /\ [][PeerNext]_vars

(***************************************************************************)
(* SpecPeer: MaxConns connections to the peer server, each from one of a   *)
(* few peers: two send_weights calls with different ParameterSets, a peer  *)
(* that disconnects in the middle of a message, one that stalls in the     *)
(* middle of a message. The sizes of the reads are not recorded here.      *)
(***************************************************************************)
PeerParams == {<<>>, << <<(<<119>>), <<1>>>> >>}

HalfOf(b) == Prefix(b, Len(b) \div 2)

PeerClients ==
    SendWeightsClients(PeerParams)
      \cup {k \in TruncatingClients(PeerParams) : k.p # <<>> /\ k.bytes = HalfOf(Dumps(k.p))}
      \cup {k \in StallingClients(PeerParams) : k.p # <<>> /\ k.bytes = HalfOf(Dumps(k.p))}

InitPeer ==
    /\ PeerInitCommon
    /\ bytewise = [c \in Conns |-> FALSE]
    /\ client \in [Conns -> PeerClients]

SpecPeer == InitPeer /\ [][PeerNext]_vars

(***************************************************************************)
(* FairStall: MaxConns connections to the peer server, each a send_weights *)
(* of the empty ParameterSet, a peer that disconnects in the middle of     *)
(* that message, a peer that stalls in the middle of it or a peer that     *)
(* writes all of it and stays connected.                                   *)
(***************************************************************************)
StallClients ==
    SendWeightsClients({<<>>})
      \cup {k \in TruncatingClients({<<>>}) : k.bytes = HalfOf(Dumps(k.p))}
      \cup {k \in StallingClients({<<>>}) : k.bytes \in {HalfOf(Dumps(k.p)), Dumps(k.p)}}

InitStall ==
    /\ PeerInitCommon
    /\ bytewise = [c \in Conns |-> FALSE]
    /\ client \in [Conns -> StallClients]

\* the threads of the peer server are scheduled: the server thread and every
\* handler thread keep running; when a peer sends is up to that peer
PeerFairness ==
    /\ WF_vars(Bind)
    /\ WF_vars(Accept)
    /\ \A c \in Conns : WF_vars(Recv(c)) /\ WF_vars(LoadsOk(c))
                        /\ WF_vars(LoadsRaises(c)) /\ WF_vars(Callback(c))

FairStall == InitStall /\ [][PeerNext]_vars /\ PeerFairness

(***************************************************************************)
(* SpecRun: run.py. The main thread starts the peer server, sleeps, trains *)
(* and sends the weights to the server of its own process over connection  *)
(* MainConn; the other connections are made by other peers at any time.    *)
(* The port may be held by another process.                                *)
(***************************************************************************)
InitRun ==
    /\ AggIdle
    /\ NodesIdle
    /\ ConnsInit
    /\ srv = "off"
    /\ inuse \in BOOLEAN
    /\ main = "start"
    /\ bytewise = [c \in Conns |-> FALSE]
    /\ \E k \in SendWeightsClients(PeerParams) : \E f \in [Conns -> StallClients] :
         client = [c \in Conns |-> IF c = MainConn THEN k ELSE f[c]]

RunNext ==
    \/ PeerNext
    \/ BindFails
    \/ StartPeerServer
    \/ Sleep
    \/ Train
    \/ Exit

SpecRun == InitRun /\ [][RunNext]_vars

\* the process of run.py has ended
ProcessEnded ==
    /\ main \in {"ended", "crashed"}
    /\ \A c \in Conns : ~HandlerRunning(c)
    /\ srv \in {"killed", "bind_failed", "dead"}

(***************************************************************************)
(* Claims about node/peer.py.                                              *)
(***************************************************************************)
\* the arguments the callback was called with for connection c, in order
ArgsFor(c) == SelectSeq(calls, LAMBDA e : e[1] = c)

ArgsOnly(c) == [i \in DOMAIN ArgsFor(c) |-> ArgsFor(c)[i][2]]

HandlerEnded(c) == hpc[c] \in {"done", "raised"}

\* C1: a send_weights(host, port, p) to a listening peer server hands the callback
\* a value equal to p, however the bytes are split into reads: the handler of such
\* a connection is never stuck in recv, every call of the callback for it carries
\* p, and when the handler has ended the callback was called with p.
C1_SendDeliversEqualValue ==
    \A c \in Conns :
        Good(c) /\ cpc[c] = "closed" =>
            /\ hpc[c] = "recv" => RecvResults(c) # {}
            /\ \A i \in DOMAIN ArgsOnly(c) : ArgsOnly(c)[i] = client[c].p
            /\ HandlerEnded(c) => ArgsOnly(c) = <<client[c].p>>

\* a two-entry ParameterSet with non-empty values, sent by send_weights, read one
\* byte per recv, was handed to the callback
C1_Witness ==
    \E c \in Conns :
        /\ Good(c) /\ bytewise[c] /\ hpc[c] = "done"
        /\ Len(client[c].p) = 2
        /\ \A i \in DOMAIN client[c].p : client[c].p[i][2] # <<>>
        /\ ArgsOnly(c) = <<client[c].p>>

C4_StalledPeerBlocksNobody ==
    \A c \in Conns :
        (Good(c) /\ cpc[c] = "closed") ~> (ArgsOnly(c) = <<client[c].p>>)

\* a stalled connection's handler is blocked in recv, and another connection's
\* message was delivered
C4_Witness ==
    \E c, d \in Conns :
        /\ client[d].kind = "stall" /\ hpc[d] = "recv" /\ RecvResults(d) = {}
        /\ conn[d] = "open"
        /\ Good(c) /\ ArgsOnly(c) = <<client[c].p>> /\ conn[c] = "closed"

\* C11: when a peer disconnects before its message is complete, receive itself
\* fails (ConnectionClosed): the handler of such a connection ends in its receive
\* loop and the partial bytes are never passed on to be decoded.
C11_TruncatedFrameFailsInReceive ==
    \A c \in Conns : client[c].kind = "truncate" => hpc[c] \notin {"loads", "callback"}

\* the peer of connection c has written all the bytes of one encoded ParameterSet
Complete(c) == client[c].bytes = Dumps(client[c].p) /\ cpc[c] \in {"closed", "stalled"}

\* C12: the message is self-delimiting: once all bytes of one encoded ParameterSet
\* have been written to a connection the callback is eventually invoked with it,
\* whether or not the sender then closes the connection.
C12_CompleteMessageIsDelivered ==
    \A c \in Conns : Complete(c) ~> (ArgsOnly(c) = <<client[c].p>>)

(***************************************************************************)
(* Claims about run.py and the life of the peer server.                    *)
(***************************************************************************)
\* start_peer_server has returned and the main thread goes on
CallerProceeds == main \in {"sleep", "train", "send", "ended"}

\* C13: the peer server can be stopped: whenever it is listening, a step of the
\* program that ends the listening (and releases the socket) is possible.
C13_ServerCanBeStopped ==
    Listening => ENABLED (RunNext /\ ~Listening')

\* C14: when the port cannot be bound, start does not return normally: the caller
\* never goes on past start_peer_server with a server whose bind failed.
C14_BindFailureReported ==
    srv = "bind_failed" => ~CallerProceeds

\* C15: send_weights makes one connection attempt per call and no retry: a
\* connection is attempted at most once; an attempt made while nothing listens on
\* the port is refused; a refused call has written nothing, has left nothing for
\* the server to accept or handle, and has ended run.py's main thread with the
\* exception when it was that thread's call.
C15_SendIsSingleAttempt ==
    /\ [](\A c \in Conns :
            /\ attempts[c] <= 1
            /\ cpc[c] = "refused" =>
                 /\ attempts[c] = 1
                 /\ wire[c] = <<>> /\ data[c] = <<>>
                 /\ hpc[c] = "none" /\ conn[c] = "none"
                 /\ \A i \in DOMAIN backlog : backlog[i] # c
                 /\ ArgsFor(c) = <<>>
                 /\ ByMain(c) => main = "crashed")
    /\ [][\A c \in Conns :
            attempts'[c] # attempts[c] /\ ~Listening /\ ~inuse => cpc'[c] = "refused"]_vars

\* run.py's send found the server of its own process not yet listening on a free
\* port: it was refused after one attempt, and the server bound afterwards
C15_Witness ==
    /\ ~inuse /\ srv = "accept"
    /\ cpc[MainConn] = "refused" /\ attempts[MainConn] = 1 /\ main = "crashed"
    /\ calls = <<>>

\* C16: when start_peer_server has returned the server is listening: while the
\* caller goes on (the port being free) the socket is bound and listening, and
\* the caller's send is not refused.
C16_StartReturnsListening ==
    ~inuse =>
        /\ main \in {"sleep", "train", "send"} => Listening
        /\ cpc[MainConn] # "refused"

\* C18: in run.py a message that send_weights has sent to the server is handed to
\* the callback before the process ends.
C18_SentMessageNotLost ==
    ProcessEnded /\ cpc[MainConn] = "closed" => ArgsOnly(MainConn) = <<client[MainConn].p>>

(***************************************************************************)
(* aggregator/aggregate.py: average_weights.                               *)
(*                                                                         *)
(* Numbers are exact fractions. The inputs are small integers, for which   *)
(* the sums of floating-point arithmetic are exact as well.                *)
(***************************************************************************)
RECURSIVE GCD(_, _)
GCD(a, b) == IF b = 0 THEN a ELSE GCD(b, a % b)

Frac(n, d) == LET g == GCD(n, d) IN <<n \div g, d \div g>>

FracAdd(x, y) == Frac(x[1] * y[2] + y[1] * x[2], x[2] * y[2])

FracDiv(x, n) == Frac(x[1], x[2] * n)

\* the position of key in the dict d, 0 when d has no such key
Lookup(d, key) ==
    IF \E i \in DOMAIN d : d[i][1] = key
    THEN CHOOSE i \in DOMAIN d : d[i][1] = key
    ELSE 0

\* d[key] on a dict given by its value
ValueAt(p, key) == p[Lookup(p, key)][2]

\* a dict of values is allocated: a new tensor per entry, a new dict
Alloc(h, content) ==
    [tensors |-> h.tensors \o [i \in DOMAIN content |-> content[i][2]],
     dicts |-> Append(h.dicts, [i \in DOMAIN content |-> <<content[i][1], Len(h.tensors) + i>>])]

RECURSIVE AllocAll(_, _)
AllocAll(h, contents) ==
    IF contents = <<>> THEN h ELSE AllocAll(Alloc(h, Head(contents)), Tail(contents))

\* the value of the dict with reference id: its keys, in order, with the elements
\* of their tensors
Resolve(h, id) == [i \in DOMAIN h.dicts[id] |-> <<h.dicts[id][i][1], h.tensors[h.dicts[id][i][2]]>>]

\* the tensors the dict with reference id refers to
RefsOf(h, id) == {h.dicts[id][i][2] : i \in DOMAIN h.dicts[id]}

\* copy.copy: a new dict that refers to the same tensors (the variant of
\* copy.deepcopy that shares the tensors with the input)
CopyShallow(h, id) ==
    [heap |-> [h EXCEPT !.dicts = Append(h.dicts, h.dicts[id])], id |-> Len(h.dicts) + 1]

\* copy.deepcopy(local_weights[0]): a new dict with a new tensor per entry
Deepcopy(h, id) ==
    [heap |-> Alloc(h, Resolve(h, id)), id |-> Len(h.dicts) + 1]

\* len(local_weights), the divisor of torch.div, with the variant that divides by
\* two whatever the number of sets
DivisorTwo(lw) == 2

Divisor(lw) == Len(lw)

\* a += b on tensors: b must broadcast to the shape of a; a tensor of one element
\* broadcasts to any length
IAddOk(a, b) == Len(b) = Len(a) \/ Len(b) = 1

\* the variant of += that leaves the left operand as it was
IAddDropped(a, b) == a

IAdd(a, b) == [j \in DOMAIN a |-> FracAdd(a[j], IF Len(b) = 1 THEN b[1] ELSE b[j])]

\* torch.div(a, n): a new tensor
TorchDiv(a, n) == [j \in DOMAIN a |-> FracDiv(a[j], n)]

\* for i in range(1, len(local_weights)): avg_weights[key] += local_weights[i][key]
\* from set i on, for the key at position ki of avg_weights
RECURSIVE AddLoop(_, _, _, _, _)
AddLoop(h, avg, ki, i, lw) ==
    IF i > Len(lw) THEN [heap |-> h, exc |-> "none"]
    ELSE LET key == h.dicts[avg][ki][1]
             other == h.dicts[lw[i]]
             idx == Lookup(other, key) IN
         IF idx = 0 THEN [heap |-> h, exc |-> "KeyError"]
         ELSE LET ra == h.dicts[avg][ki][2]
                  rb == other[idx][2] IN
              IF ~IAddOk(h.tensors[ra], h.tensors[rb]) THEN [heap |-> h, exc |-> "RuntimeError"]
              ELSE AddLoop([h EXCEPT !.tensors[ra] = IAdd(h.tensors[ra], h.tensors[rb])],
                           avg, ki, i + 1, lw)

\* for key in avg_weights.keys(): the inner loop, then
\* avg_weights[key] = torch.div(avg_weights[key], len(local_weights))
RECURSIVE KeyLoop(_, _, _, _)
KeyLoop(h, avg, ki, lw) ==
    IF ki > Len(h.dicts[avg]) THEN [heap |-> h, ret |-> avg, exc |-> "none"]
    ELSE LET a == AddLoop(h, avg, ki, 2, lw) IN
         IF a.exc # "none" THEN [heap |-> a.heap, ret |-> 0, exc |-> a.exc]
         ELSE LET ref == a.heap.dicts[avg][ki][2]
                  newT == Append(a.heap.tensors, TorchDiv(a.heap.tensors[ref], Divisor(lw)))
                  newD == [a.heap.dicts EXCEPT ![avg][ki] = <<@[1], Len(newT)>>] IN
              KeyLoop([tensors |-> newT, dicts |-> newD], avg, ki + 1, lw)

\* average_weights(local_weights): the heap after the call, the reference of the
\* dict returned (0 when it raises) and the exception
AverageWeights(h, lw) ==
    IF lw = <<>> THEN [heap |-> h, ret |-> 0, exc |-> "IndexError"]
    ELSE LET c == Deepcopy(h, lw[1]) IN KeyLoop(c.heap, c.id, 1, lw)

Heap == [tensors |-> tensors, dicts |-> dicts]

\* the outcome of a call as the caller sees it: the exception, the dict returned
\* and the value that dict has at the return
Outcome(r) ==
    [exc |-> r.exc, ret |-> r.ret, val |-> IF r.exc = "none" THEN Resolve(r.heap, r.ret) ELSE <<>>]

\* the caller calls average_weights(local_weights)
Call ==
    /\ apc = "start"
    /\ LET r == AverageWeights(Heap, local_weights) IN
         /\ tensors' = r.heap.tensors
         /\ dicts' = r.heap.dicts
         /\ out1' = Outcome(r)
    /\ apc' = "called"
    /\ UNCHANGED <<local_weights, inputs0, out2, order, peerVars, nodeVars>>

\* the caller changes the returned dict in place: one more is added to every
\* element of the tensor of one of its keys
MutateResult ==
    /\ apc = "called"
    /\ out1.exc = "none"
    /\ \E ki \in DOMAIN dicts[out1.ret] :
         LET ref == dicts[out1.ret][ki][2] IN
           tensors' = [tensors EXCEPT ![ref] = [j \in DOMAIN @ |-> FracAdd(@[j], <<1, 1>>)]]
    /\ apc' = "mutated"
    /\ UNCHANGED <<dicts, local_weights, inputs0, out1, out2, order, peerVars, nodeVars>>

Orders(n) == {f \in [1..n -> 1..n] : \A i, j \in 1..n : f[i] = f[j] => i = j}

\* the caller calls average_weights again with the same sets in another order
CallReordered ==
    /\ apc = "called"
    /\ \E f \in Orders(Len(local_weights)) :
         LET r == AverageWeights(Heap, [i \in DOMAIN local_weights |-> local_weights[f[i]]]) IN
           /\ tensors' = r.heap.tensors
           /\ dicts' = r.heap.dicts
           /\ out2' = Outcome(r)
           /\ order' = f
    /\ apc' = "again"
    /\ UNCHANGED <<local_weights, inputs0, out1, peerVars, nodeVars>>

AggNext == Call \/ MutateResult \/ CallReordered

(***************************************************************************)
(* SpecAgg: the calls of average_weights on up to MaxSets ParameterSets    *)
(* with keys among "w", "b" and tensors of one or two elements; the same   *)
(* dict may be passed more than once.                                      *)
(***************************************************************************)
AggKeys == {"w", "b"}

AggTensors == {<< <<1, 1>> >>, << <<3, 1>> >>, << <<1, 1>>, <<2, 1>> >>}

AggDicts == {p \in SeqsUpTo(AggKeys \X AggTensors, Cardinality(AggKeys)) : DistinctKeys(p)}

\* the ways n list positions refer to m distinct dicts, each dict numbered by its
\* first position
AliasPatterns(n, m) ==
    {f \in [1..n -> 1..m] :
        /\ \A j \in 1..m : \E i \in 1..n : f[i] = j
        /\ \A i \in 1..n : \A j \in 1..(f[i] - 1) : \E k \in 1..(i - 1) : f[k] = j}

InitAgg ==
    /\ \E n \in 0..MaxSets : \E m \in 0..n :
         \E contents \in [1..m -> AggDicts] : \E f \in AliasPatterns(n, m) :
            LET h == AllocAll([tensors |-> <<>>, dicts |-> <<>>], contents) IN
              /\ tensors = h.tensors
              /\ dicts = h.dicts
              /\ local_weights = f
              /\ inputs0 = [i \in 1..n |-> contents[f[i]]]
    /\ apc = "start"
    /\ out1 = <<>>
    /\ out2 = <<>>
    /\ order = <<>>
    /\ PeerIdle
    /\ NodesIdle

SpecAgg == InitAgg /\ [][AggNext]_vars

(***************************************************************************)
(* Claims about aggregator/aggregate.py.                                   *)
(***************************************************************************)
NSets == Len(local_weights)

KeySeq(p) == [i \in DOMAIN p |-> p[i][1]]

\* the sets passed share one key set and, per key, one shape
ValidInputs ==
    /\ NSets >= 1
    /\ \A i \in 1..NSets :
         /\ KeysOf(inputs0[i]) = KeysOf(inputs0[1])
         /\ \A key \in KeysOf(inputs0[1]) :
              Len(ValueAt(inputs0[i], key)) = Len(ValueAt(inputs0[1], key))

\* the sum over the sets from i on of element j of the tensor of key (the inputs
\* are integers: fractions of denominator 1)
RECURSIVE SumFrom(_, _, _)
SumFrom(i, key, j) ==
    IF i > NSets THEN 0 ELSE ValueAt(inputs0[i], key)[j][1] + SumFrom(i + 1, key, j)

\* two ParameterSet values with the same keys and, per key, the same tensor
SameMapping(p, q) ==
    /\ KeysOf(p) = KeysOf(q)
    /\ \A key \in KeysOf(p) : ValueAt(p, key) = ValueAt(q, key)

\* the second set is the first with the integer c added to every element
DiffersBy(c) ==
    \A key \in KeysOf(inputs0[1]) : \A j \in DOMAIN ValueAt(inputs0[1], key) :
        ValueAt(inputs0[2], key)[j][1] = ValueAt(inputs0[1], key)[j][1] + c

\* C5: for a non-empty sequence of sets with identical key sets and shapes,
\* average_weights returns, per key (in the order of the first set), the
\* elementwise arithmetic mean: an element n/d of the result satisfies
\* n * (number of sets) = d * (sum over the sets). In particular average([p]) = p,
\* average([p, p]) = p, and for two sets that differ by c on every element the
\* result is the first set plus c/2.
C5_AverageIsElementwiseMean ==
    apc # "start" /\ apc # "idle" /\ ValidInputs =>
        /\ out1.exc = "none"
        /\ KeySeq(out1.val) = KeySeq(inputs0[1])
        /\ \A ki \in DOMAIN out1.val :
             LET key == out1.val[ki][1]
                 r == out1.val[ki][2] IN
               /\ Len(r) = Len(ValueAt(inputs0[1], key))
               /\ \A j \in DOMAIN r :
                    /\ r[j][2] > 0
                    /\ r[j][1] * NSets = r[j][2] * SumFrom(1, key, j)
        /\ NSets = 1 => out1.val = inputs0[1]
        /\ NSets = 2 /\ inputs0[1] = inputs0[2] => out1.val = inputs0[1]
        /\ NSets = 2 =>
             \A c \in 0..2 : DiffersBy(c) =>
                \A ki \in DOMAIN out1.val : \A j \in DOMAIN out1.val[ki][2] :
                    LET r == out1.val[ki][2][j]
                        a == inputs0[1][ki][2][j][1] IN
                      2 * (r[1] - a * r[2]) = c * r[2]

\* two different sets with two keys in different orders were averaged
C5_Witness ==
    /\ apc = "called" /\ ValidInputs /\ NSets >= 2
    /\ Len(inputs0[1]) = 2 /\ KeySeq(inputs0[1]) # KeySeq(inputs0[2])
    /\ \E ki \in DOMAIN inputs0[1] : Len(inputs0[1][ki][2]) = 2
    /\ ~SameMapping(inputs0[1], inputs0[2])
    /\ out1.exc = "none"

\* C6: average_weights on sets whose key sets or shapes differ returns no result.
C6_MismatchReturnsNothing ==
    apc # "start" /\ apc # "idle" /\ NSets >= 1 /\ ~ValidInputs => out1.exc # "none"

\* C7: the aggregate does not depend on the order of the sets: the call with the
\* same sets in any other order returns the same value per key.
C7_OrderIndependent ==
    apc = "again" /\ ValidInputs =>
        /\ out1.exc = "none" /\ out2.exc = "none"
        /\ SameMapping(out1.val, out2.val)

\* two different sets were averaged in both orders
C7_Witness ==
    /\ apc = "again" /\ ValidInputs /\ NSets >= 2
    /\ order[1] # 1
    /\ ~SameMapping(inputs0[1], inputs0[2])
    /\ Len(inputs0[1]) = 2
    /\ out2.exc = "none"

InputRefs == UNION {RefsOf(Heap, local_weights[i]) : i \in 1..NSets}

Fresh(out) ==
    out # <<>> /\ out.exc = "none" =>
        /\ \A i \in 1..NSets : out.ret # local_weights[i]
        /\ RefsOf(Heap, out.ret) \cap InputRefs = {}

\* C8: average_weights does not mutate its inputs and returns a structure that
\* shares nothing with them: after a call, after a change of the result in place
\* and after a further call, every input dict has the keys and values it had, and
\* a returned dict is none of the input dicts and refers to none of their tensors.
C8_InputsUntouched ==
    apc # "start" /\ apc # "idle" =>
        /\ \A i \in 1..NSets : Resolve(Heap, local_weights[i]) = inputs0[i]
        /\ Fresh(out1)
        /\ Fresh(out2)

\* the result of averaging two or more sets was changed in place
C8_Witness ==
    /\ apc = "mutated" /\ ValidInputs /\ NSets >= 2
    /\ Resolve(Heap, out1.ret) # out1.val
    /\ \A i \in 1..NSets : Resolve(Heap, local_weights[i]) = inputs0[i]

(***************************************************************************)
(* tutorials/p2p_w_ml/node_a.py and node_b.py.                             *)
(*                                                                         *)
(* local_weights has the keys 'weights' and 'intercept'; the nested list   *)
(* of 'weights' is taken as the flat list of its elements.                 *)
(***************************************************************************)
Nodes == {"A", "B"}

LISTEN_PORT(n) == IF n = "A" THEN 6000 ELSE 6001

TARGET_PORT(n) == IF n = "A" THEN 6001 ELSE 6000

\* the node that listens on the port node n sends to
Target(n) == CHOOSE m \in Nodes : LISTEN_PORT(m) = TARGET_PORT(n)

KeyWeights == <<119, 101, 105, 103, 104, 116, 115>>

KeyIntercept == <<105, 110, 116, 101, 114, 99, 101, 112, 116>>

\* local_weights = {'weights': ..., 'intercept': ...}
LocalWeights(w, b) == << <<KeyWeights, w>>, <<KeyIntercept, b>> >>

NodeParams == {LocalWeights(<<1, 2>>, <<1>>), LocalWeights(<<3, 4>>, <<2>>)}

\* the process of node n is running
Alive(n) == mpc[n] \notin {"done", "crashed"}

\* node n's server socket is bound and listening: from server.listen() until
\* listen_for_peer returns or the process ends
NodeListening(n) == lpc[n] \in {"accept", "recv", "loads", "close"}

\* the connection to node n of source src ("peer": the other node, "other": a
\* third process)
Link(n, src) == IF src = "peer" THEN nlink[n] ELSE xlink[n]

\* the connections server.accept() has returned at node n
Accepted(n) == {src \in {"peer", "other"} : Link(n, src) \in {"accepted", "closed"}}

\* the bytes unread on the connection listen_for_peer of node n reads, and whether
\* its peer has closed it (the third process closes right after writing)
ActiveWire(n) == IF xlink[n] = "accepted" THEN xwire[n] ELSE nwire[n]

ActiveFin(n) == IF xlink[n] = "accepted" THEN TRUE ELSE nfin[n]

\* what conn.recv(4096) can return in listen_for_peer of node n
NodeRecvResults(n) ==
    IF ActiveWire(n) # <<>>
    THEN {Prefix(ActiveWire(n), k) : k \in 1..Min(Len(ActiveWire(n)), RecvBufSize)}
    ELSE IF ActiveFin(n) THEN {<<>>} ELSE {}

\* after conn.close() listen_for_peer returns, with the variant that goes back to
\* server.accept() as the loop of a server does
ListenerLoops(n) == "accept"

ListenerReturns(n) == "done"

\* the local_weights a third process sends
OtherWeights == LocalWeights(<<5, 6>>, <<3>>)

\* (np.array(x) + np.array(y)) / 2, elementwise
HalfSum(x, y) == [j \in DOMAIN x |-> Frac(x[j] + y[j], 2)]

\* the aggregate step on local_weights and received_weights
NodeAverage(local, recv) ==
    [kind |-> "aggregate",
     weights |-> HalfSum(ValueAt(local, KeyWeights), ValueAt(recv, KeyWeights)),
     intercept |-> HalfSum(ValueAt(local, KeyIntercept), ValueAt(recv, KeyIntercept))]

\* the main thread of node n ends: the process exits and its daemon listener
\* thread ends with it
ListenerAtExit(n) == IF lpc[n] \in {"done", "raised"} THEN lpc[n] ELSE "killed"

\* listen_for_peer: server.bind(('localhost', LISTEN_PORT)); server.listen()
ListenBind(n) ==
    /\ Alive(n)
    /\ lpc[n] = "bind"
    /\ lpc' = [lpc EXCEPT ![n] = "accept"]
    /\ UNCHANGED <<nlocal, mpc, nlink, nfin, nwire, ndata, received_weights, result,
                   xlink, xwire, norder,
                   peerVars, aggVars>>

\* listen_for_peer: conn, addr = server.accept(); data = b"": accept returns the
\* connection that was made first among those waiting
ListenAccept(n) ==
    /\ Alive(n)
    /\ lpc[n] = "accept"
    /\ \E i \in DOMAIN norder[n] :
         /\ Link(n, norder[n][i]) = "queued"
         /\ \A j \in 1..(i - 1) : Link(n, norder[n][j]) # "queued"
         /\ IF norder[n][i] = "peer"
            THEN nlink' = [nlink EXCEPT ![n] = "accepted"] /\ UNCHANGED xlink
            ELSE xlink' = [xlink EXCEPT ![n] = "accepted"] /\ UNCHANGED nlink
    /\ ndata' = [ndata EXCEPT ![n] = <<>>]
    /\ lpc' = [lpc EXCEPT ![n] = "recv"]
    /\ UNCHANGED <<nlocal, mpc, nfin, nwire, received_weights, result, xwire, norder,
                   peerVars, aggVars>>

\* listen_for_peer: part = conn.recv(4096); if not part: break; data += part
ListenRecv(n) ==
    /\ Alive(n)
    /\ lpc[n] = "recv"
    /\ \E part \in NodeRecvResults(n) :
         /\ IF xlink[n] = "accepted"
            THEN xwire' = [xwire EXCEPT ![n] = Suffix(xwire[n], Len(part))] /\ UNCHANGED nwire
            ELSE nwire' = [nwire EXCEPT ![n] = Suffix(nwire[n], Len(part))] /\ UNCHANGED xwire
         /\ lpc' = [lpc EXCEPT ![n] = AfterPacket(part)]
         /\ ndata' = [ndata EXCEPT ![n] = IF part = <<>> THEN ndata[n]
                                          ELSE Accumulate(ndata[n], part)]
    /\ UNCHANGED <<nlocal, mpc, nlink, nfin, received_weights, result, xlink, norder,
                   peerVars, aggVars>>

\* listen_for_peer: received_weights = pickle.loads(data)
ListenLoads(n) ==
    /\ Alive(n)
    /\ lpc[n] = "loads"
    /\ IF Loads(ndata[n]).ok
       THEN /\ received_weights' = [received_weights EXCEPT ![n] = <<Loads(ndata[n]).val>>]
            /\ lpc' = [lpc EXCEPT ![n] = "close"]
       ELSE /\ lpc' = [lpc EXCEPT ![n] = "raised"]
            /\ UNCHANGED received_weights
    /\ UNCHANGED <<nlocal, mpc, nlink, nfin, nwire, ndata, result, xlink, xwire, norder,
                   peerVars, aggVars>>

\* listen_for_peer: conn.close(), and the function returns
ListenClose(n) ==
    /\ Alive(n)
    /\ lpc[n] = "close"
    /\ lpc' = [lpc EXCEPT ![n] = ListenerReturns(n)]
    /\ IF xlink[n] = "accepted"
       THEN xlink' = [xlink EXCEPT ![n] = "closed"] /\ UNCHANGED nlink
       ELSE nlink' = [nlink EXCEPT ![n] = "closed"] /\ UNCHANGED xlink
    /\ UNCHANGED <<nlocal, mpc, nfin, nwire, ndata, received_weights, result, xwire,
                   norder, peerVars, aggVars>>

\* a third process connects to the listening port of node n, writes the pickle of
\* its weights and closes; it makes one connection
OtherConnect(n) ==
    /\ NodeListening(n)
    /\ \A m \in Nodes : xlink[m] = "none"
    /\ xlink' = [xlink EXCEPT ![n] = "queued"]
    /\ xwire' = [xwire EXCEPT ![n] = Dumps(OtherWeights)]
    /\ norder' = [norder EXCEPT ![n] = Append(@, "other")]
    /\ UNCHANGED <<nlocal, mpc, lpc, nlink, nfin, nwire, ndata, received_weights, result,
                   peerVars, aggVars>>

\* input("Press Enter to send local weights..."): the user presses Enter
MainEnter1(n) ==
    /\ mpc[n] = "input1"
    /\ mpc' = [mpc EXCEPT ![n] = "connect"]
    /\ UNCHANGED <<nlocal, lpc, nlink, nfin, nwire, ndata, received_weights, result,
                   xlink, xwire, norder,
                   peerVars, aggVars>>

\* send_weights: s.connect((TARGET_HOST, TARGET_PORT)); ConnectionRefusedError is
\* not caught and ends the process
MainConnect(n) ==
    /\ mpc[n] = "connect"
    /\ IF NodeListening(Target(n))
       THEN /\ nlink' = [nlink EXCEPT ![Target(n)] = "queued"]
            /\ norder' = [norder EXCEPT ![Target(n)] = Append(@, "peer")]
            /\ mpc' = [mpc EXCEPT ![n] = "sendall"]
            /\ UNCHANGED lpc
       ELSE /\ mpc' = [mpc EXCEPT ![n] = "crashed"]
            /\ lpc' = [lpc EXCEPT ![n] = ListenerAtExit(n)]
            /\ UNCHANGED <<nlink, norder>>
    /\ UNCHANGED <<nlocal, nfin, nwire, ndata, received_weights, result, xlink, xwire,
                   peerVars, aggVars>>

\* send_weights: s.sendall(pickle.dumps(local_weights)); when the peer's process
\* has ended or its listener has returned (the listening socket is gone) the call
\* may succeed or raise
MainSendall(n) ==
    /\ mpc[n] = "sendall"
    /\ \/ /\ nwire' = [nwire EXCEPT ![Target(n)] = Dumps(nlocal[n])]
          /\ mpc' = [mpc EXCEPT ![n] = "close"]
          /\ UNCHANGED lpc
       \/ /\ ~Alive(Target(n)) \/ ~NodeListening(Target(n))
          /\ mpc' = [mpc EXCEPT ![n] = "crashed"]
          /\ lpc' = [lpc EXCEPT ![n] = ListenerAtExit(n)]
          /\ UNCHANGED nwire
    /\ UNCHANGED <<nlocal, nlink, nfin, ndata, received_weights, result, xlink, xwire, norder,
                   peerVars, aggVars>>

\* send_weights: s.close()
MainClose(n) ==
    /\ mpc[n] = "close"
    /\ nfin' = [nfin EXCEPT ![Target(n)] = TRUE]
    /\ mpc' = [mpc EXCEPT ![n] = "wait"]
    /\ UNCHANGED <<nlocal, lpc, nlink, nwire, ndata, received_weights, result,
                   xlink, xwire, norder,
                   peerVars, aggVars>>

\* input("Press Enter once you received peer's weights to aggregate..."): the
\* user presses Enter
MainEnter2(n) ==
    /\ mpc[n] = "wait"
    /\ mpc' = [mpc EXCEPT ![n] = "aggregate"]
    /\ UNCHANGED <<nlocal, lpc, nlink, nfin, nwire, ndata, received_weights, result,
                   xlink, xwire, norder,
                   peerVars, aggVars>>

\* if received_weights: ... print("[Result] ...") else: print("[Error] No weights
\* received yet."); the script ends
MainAggregate(n) ==
    /\ mpc[n] = "aggregate"
    /\ result' = [result EXCEPT ![n] =
                    IF received_weights[n] # <<>>
                    THEN NodeAverage(nlocal[n], received_weights[n][1])
                    ELSE [kind |-> "NoWeights"]]
    /\ mpc' = [mpc EXCEPT ![n] = "done"]
    /\ lpc' = [lpc EXCEPT ![n] = ListenerAtExit(n)]
    /\ UNCHANGED <<nlocal, nlink, nfin, nwire, ndata, received_weights, xlink, xwire, norder,
                   peerVars, aggVars>>

\* the steps of the program of node n: its listener thread (which takes no step
\* once its process has ended) and its main thread, apart from the waits for the
\* user
ProgramStep(n) ==
    \/ ListenBind(n)
    \/ ListenAccept(n)
    \/ ListenRecv(n)
    \/ ListenLoads(n)
    \/ ListenClose(n)
    \/ MainConnect(n)
    \/ MainSendall(n)
    \/ MainClose(n)
    \/ MainAggregate(n)

NodesNext ==
    \/ \E n \in Nodes : ListenBind(n)
    \/ \E n \in Nodes : ListenAccept(n)
    \/ \E n \in Nodes : ListenRecv(n)
    \/ \E n \in Nodes : ListenLoads(n)
    \/ \E n \in Nodes : ListenClose(n)
    \/ \E n \in Nodes : MainEnter1(n)
    \/ \E n \in Nodes : MainConnect(n)
    \/ \E n \in Nodes : MainSendall(n)
    \/ \E n \in Nodes : MainClose(n)
    \/ \E n \in Nodes : MainEnter2(n)
    \/ \E n \in Nodes : MainAggregate(n)

InitNodes ==
    /\ nlocal \in [Nodes -> NodeParams]
    /\ mpc = [n \in Nodes |-> "input1"]
    /\ lpc = [n \in Nodes |-> "bind"]
    /\ nlink = [n \in Nodes |-> "none"]
    /\ nfin = [n \in Nodes |-> FALSE]
    /\ nwire = [n \in Nodes |-> <<>>]
    /\ ndata = [n \in Nodes |-> <<>>]
    /\ received_weights = [n \in Nodes |-> <<>>]
    /\ result = [n \in Nodes |-> [kind |-> "none"]]
    /\ xlink = [n \in Nodes |-> "none"]
    /\ xwire = [n \in Nodes |-> <<>>]
    /\ norder = [n \in Nodes |-> <<>>]
    /\ PeerIdle
    /\ AggIdle

SpecNodes == InitNodes /\ [][NodesNext]_vars

\* the threads of both processes are scheduled; when the user presses Enter is up
\* to the user
FairNodes == SpecNodes /\ \A n \in Nodes : WF_vars(ProgramStep(n))

(***************************************************************************)
(* SpecOpen: the two nodes, with different local weights, and a third      *)
(* process that may connect to the listening port of either.               *)
(***************************************************************************)
InitOpen ==
    /\ InitNodes
    /\ nlocal["A"] = LocalWeights(<<1, 2>>, <<1>>)
    /\ nlocal["B"] = LocalWeights(<<3, 4>>, <<2>>)

OpenNext ==
    \/ NodesNext
    \/ \E n \in Nodes : OtherConnect(n)

SpecOpen == InitOpen /\ [][OpenNext]_vars

(***************************************************************************)
(* Claims about the two-node exchange.                                     *)
(***************************************************************************)
\* the elementwise mean of the two nodes' local sets
MeanOfNodes == NodeAverage(nlocal["A"], nlocal["B"])

\* C9: in every interleaving both nodes complete the round with the same
\* aggregate, the elementwise mean of A's and B's local sets: a node whose main
\* flow has ended has printed that aggregate.
C9_BothNodesGetTheMean ==
    \A n \in Nodes : mpc[n] \in {"done", "crashed"} => result[n] = MeanOfNodes

\* C10: the wait-for-counterpart step always terminates.
C10_WaitTerminates ==
    \A n \in Nodes : (mpc[n] = "wait") ~> (mpc[n] # "wait")

\* C17: the received set is handed from the listener thread to the main thread
\* through a synchronized handoff: when the main thread is at its aggregation
\* step, which reads the buffer, the listener has finished storing the set.
C17_ReadsAfterStore ==
    \A n \in Nodes :
        mpc[n] = "aggregate" => lpc[n] \in {"close", "done"} /\ received_weights[n] # <<>>

\* the other node
Peer(n) == CHOOSE m \in Nodes : m # n

\* the set sent by the first that connected to node n
FirstSet(n) == IF norder[n][1] = "peer" THEN nlocal[Peer(n)] ELSE OtherWeights

\* C19: the listener of a node accepts one connection per run, so received_weights
\* is assigned at most once: at most one connection is ever accepted, a set held
\* in received_weights is the one sent by the first that connected and never
\* changes, and the aggregate printed is computed from the node's local set and
\* that set.
C19_OneConnectionOneAssignment ==
    /\ [](\A n \in Nodes :
            /\ Cardinality(Accepted(n)) <= 1
            /\ received_weights[n] # <<>> => received_weights[n] = <<FirstSet(n)>>
            /\ result[n].kind = "aggregate" =>
                 result[n] = NodeAverage(nlocal[n], FirstSet(n)))
    /\ [][\A n \in Nodes :
            received_weights[n] # <<>> => received_weights'[n] = received_weights[n]]_vars

\* a third process connected to a node first and the other node second: the
\* listener has returned after the first connection, the other node's connection
\* was never accepted, and the node printed the aggregate with the first one's set
C19_Witness ==
    \E n \in Nodes :
        /\ norder[n] = <<"other", "peer">>
        /\ xlink[n] = "closed" /\ nlink[n] = "queued" /\ lpc[n] = "done"
        /\ mpc[n] = "done"
        /\ result[n] = NodeAverage(nlocal[n], OtherWeights)
        /\ result[n] # MeanOfNodes
====
